---- MODULE Spec2Model ----
(***************************************************************************)
(* Model of src/pyo3_extensions.rs: the newtypes TdPyAny and TdPyCallable  *)
(* around a Python object reference, and their Debug, PartialEq, Clone,    *)
(* Serialize / Deserialize and FromPyObject implementations.               *)
(*                                                                         *)
(* Worker threads of the dataflow call the trait methods; every method     *)
(* that dereferences the object does so inside Python::with_gil.  The      *)
(* interpreter (object heap, reference counts, rich comparison, repr,      *)
(* pickle) is the external collaborator and is modelled by what its calls  *)
(* return for a small set of Python values.                                *)
(***************************************************************************)
EXTENDS Integers, Sequences, FiniteSets, TLC

\* ------------------------------------------------------------- bounds
NumWorkers == 2
MaxObjs == 2
MaxRefs == 2
MaxWire == 1

Threads == 1..NumWorkers
Objs == 1..MaxObjs

\* ------------------------------------------------- interpreter values
\* A Python value is [type, val]: val is the byte content of a primitive
\* (the int's byte, the str's code points, the float's IEEE-754 big-endian
\* bytes) and empty for the instances of user classes.
Free == [type |-> "free", val |-> <<>>]
Int1 == [type |-> "int", val |-> <<1>>]
Hello == [type |-> "str", val |-> <<104, 101, 108, 108, 111>>]
NaN == [type |-> "float", val |-> <<127, 248, 0, 0, 0, 0, 0, 0>>]
\* instance of a class whose __repr__ and __eq__ raise, and whose metaclass
\* raises when asked for the type's name
Raiser == [type |-> "Raiser", val |-> <<>>]
\* instance of a class with __call__ and an __eq__ that returns an object
\* with no truth value (as an array's does); it has no __name__
Ambiguous == [type |-> "Ambiguous", val |-> <<>>]
\* a lambda: callable, __name__ is "<lambda>"
Lambda == [type |-> "function", val |-> <<>>]

Primitives == {Int1, Hello, NaN}
Values == Primitives \cup {Raiser, Ambiguous, Lambda}

Ok(x) == [ok |-> TRUE, val |-> x]
Err(m) == [ok |-> FALSE, val |-> m]

\* repr(v) then to_str: the printable form, or the raised error
Repr(v) ==
  CASE v.type = "int" -> Ok(<<"1">>)
    [] v.type = "str" -> Ok(<<"'", "hello", "'">>)
    [] v.type = "float" -> Ok(<<"nan">>)
    [] v.type = "Raiser" -> Err(<<"RuntimeError", "__repr__">>)
    [] v.type = "function" -> Ok(<<"<function <lambda>>">>)
    [] OTHER -> Ok(<<"<", v.type, " object>">>)

\* a float's bytes encode a NaN: exponent bits all ones, mantissa non-zero
IsNaNBits(b) ==
  /\ b[1] % 128 = 127
  /\ b[2] \div 16 = 15
  /\ \/ b[2] % 16 # 0
     \/ \E i \in 3..8 : b[i] # 0

\* type(v).__eq__(v, w): "True", "False", "NotImplemented", "array" (an object
\* with no truth value) or "raise"
TypeEq(v, w, same) ==
  CASE v.type = "Raiser" -> "raise"
    [] v.type = "Ambiguous" -> "array"
    [] v.type \in {"int", "str"} ->
         IF w.type # v.type THEN "NotImplemented"
         ELSE IF v.val = w.val THEN "True" ELSE "False"
    [] v.type = "float" ->
         IF w.type # "float" THEN "NotImplemented"
         ELSE IF IsNaNBits(v.val) \/ IsNaNBits(w.val) THEN "False"
         ELSE IF v.val = w.val THEN "True" ELSE "False"
    [] OTHER -> IF same THEN "True" ELSE "NotImplemented"

\* PyObject_RichCompare(v, w, Py_EQ): the left operand's __eq__, then the
\* reflected one, then identity; no identity shortcut before them
RichCompareEq(v, w, same) ==
  LET l == TypeEq(v, w, same)
      r == TypeEq(w, v, same)
      pick == IF l # "NotImplemented" THEN l
              ELSE IF r # "NotImplemented" THEN r
              ELSE IF same THEN "True" ELSE "False"
  IN  IF pick = "raise" THEN Err(<<"RuntimeError", "__eq__">>) ELSE Ok(pick)

\* PyObject_IsTrue of a comparison result
IsTruthy(res) ==
  CASE res = "True" -> Ok(TRUE)
    [] res = "False" -> Ok(FALSE)
    [] OTHER -> Err(<<"ValueError", "truth value is ambiguous">>)

IsCallable(v) == v.type \in {"function", "Ambiguous"}

\* type(v).__name__
TypeName(v) ==
  IF v.type = "Raiser" THEN Err(<<"RuntimeError", "__name__">>) ELSE Ok(v.type)

\* getattr(v, "__name__") extracted as a string
GetAttrName(v) ==
  IF v.type = "function" THEN Ok(<<"<lambda>">>)
  ELSE Err(<<"AttributeError", "__name__">>)

\* ------------------------------------------------------------- pickle
\* The opcodes of the pickle byte layouts (protocols 3 and 4).
Op == [PROTO |-> 128, FRAME |-> 149, STOP |-> 46, BININT1 |-> 75,
       BINFLOAT |-> 71, SHORT_BINUNICODE |-> 140, BINUNICODE |-> 88,
       MEMOIZE |-> 148, BINPUT |-> 113]

\* n < 256 as a little-endian integer of w bytes
LittleEndian(n, w) == [i \in 1..w |-> IF i = 1 THEN n ELSE 0]

\* the opcodes that push v, protocol 4 and protocol 3
Body4(v) ==
  CASE v.type = "int" -> <<Op.BININT1>> \o v.val
    [] v.type = "float" -> <<Op.BINFLOAT>> \o v.val
    [] v.type = "str" ->
         <<Op.SHORT_BINUNICODE, Len(v.val)>> \o v.val \o <<Op.MEMOIZE>>

Body3(v) ==
  CASE v.type = "int" -> <<Op.BININT1>> \o v.val
    [] v.type = "float" -> <<Op.BINFLOAT>> \o v.val
    [] v.type = "str" ->
         <<Op.BINUNICODE>> \o LittleEndian(Len(v.val), 4) \o v.val
           \o <<Op.BINPUT, 0>>

\* pickle.dumps(v) of this interpreter (protocol 4): a frame is written
\* around payloads of at least 4 bytes
Dumps(v) ==
  IF v \notin Primitives THEN Err(<<"PicklingError", v.type>>)
  ELSE LET payload == Body4(v) \o <<Op.STOP>>
       IN  Ok(IF Len(payload) >= 4
              THEN <<Op.PROTO, 4, Op.FRAME>> \o LittleEndian(Len(payload), 8)
                     \o payload
              ELSE <<Op.PROTO, 4>> \o payload)

\* what an older interpreter (protocol 3) writes for v
Dumps3(v) == <<Op.PROTO, 3>> \o Body3(v) \o <<Op.STOP>>

\* the unpickling machine: reads b from position i with the value stack st
RECURSIVE Unpickle(_, _, _)
Unpickle(b, i, st) ==
  IF i > Len(b) THEN Err(<<"EOFError", "ran out of input">>)
  ELSE LET op == b[i]
           has(n) == i + n <= Len(b)
           trunc == Err(<<"UnpicklingError", "pickle data was truncated">>)
       IN  CASE op = Op.PROTO ->
                  IF ~has(1) THEN trunc
                  ELSE IF b[i + 1] > 5
                  THEN Err(<<"ValueError", "unsupported pickle protocol">>)
                  ELSE Unpickle(b, i + 2, st)
             [] op = Op.FRAME ->
                  IF ~has(8) THEN trunc ELSE Unpickle(b, i + 9, st)
             [] op = Op.BININT1 ->
                  IF ~has(1) THEN trunc
                  ELSE Unpickle(b, i + 2,
                         <<[type |-> "int", val |-> <<b[i + 1]>>]>> \o st)
             [] op = Op.BINFLOAT ->
                  IF ~has(8) THEN trunc
                  ELSE Unpickle(b, i + 9,
                         <<[type |-> "float",
                            val |-> SubSeq(b, i + 1, i + 8)]>> \o st)
             [] op = Op.SHORT_BINUNICODE ->
                  IF ~has(1) \/ ~has(1 + b[i + 1]) THEN trunc
                  ELSE Unpickle(b, i + 2 + b[i + 1],
                         <<[type |-> "str",
                            val |-> SubSeq(b, i + 2, i + 1 + b[i + 1])]>> \o st)
             [] op = Op.BINUNICODE ->
                  IF ~has(4) \/ ~has(4 + b[i + 1]) THEN trunc
                  ELSE Unpickle(b, i + 5 + b[i + 1],
                         <<[type |-> "str",
                            val |-> SubSeq(b, i + 5, i + 4 + b[i + 1])]>> \o st)
             [] op = Op.MEMOIZE -> Unpickle(b, i + 1, st)
             [] op = Op.BINPUT ->
                  IF ~has(1) THEN trunc ELSE Unpickle(b, i + 2, st)
             [] op = Op.STOP ->
                  IF st = <<>> THEN Err(<<"UnpicklingError", "pickle exhausted">>)
                  ELSE Ok(Head(st))
             [] OTHER -> Err(<<"UnpicklingError", "invalid load key">>)

\* pickle.loads(b)
Loads(b) == Unpickle(b, 1, <<>>)

\* -------------------------------------------------------------- state
VARIABLES
  heap,       \* the interpreter's objects: [Objs -> value], Free when released
  rc,         \* the interpreter's reference count of each object
  handles,    \* live TdPyAny values per object
  raws,       \* live PyObject values (converted out of a TdPyAny) per object
  callables,  \* live TdPyCallable values per object
  gil,        \* the set of threads inside a Python::with_gil scope
  pc,         \* where each worker thread is
  cur,        \* the call each thread is in: its arguments, locals and result
  wire        \* the byte buffers held by the engine: [bytes, src], src the
              \* value they were pickled from (history; Free if foreign)

vars == <<heap, rc, handles, raws, callables, gil, pc, cur, wire>>

\* cur[t]: op the method, a and b the objects of the borrowed handles, buf a
\* byte buffer and src its history, mod what `import pickle` found, r the
\* PyResult of the last interpreter call, handed whether
\* the call gave a buffer to the engine's serializer, ret the value the
\* method returns ([kind, val])
NoRet == [kind |-> "none", val |-> <<>>]
NoCur == [op |-> "none", a |-> 0, b |-> 0, buf |-> <<>>, src |-> Free,
          mod |-> "none", r |-> Ok(<<>>), handed |-> FALSE, ret |-> NoRet]
Call(op, a, b) == [NoCur EXCEPT !.op = op, !.a = a, !.b = b]

RECURSIVE Sum(_, _)
Sum(f, S) == IF S = {} THEN 0
             ELSE LET x == CHOOSE y \in S : TRUE IN f[x] + Sum(f, S \ {x})

Units == Sum(rc, Objs)
FreeSlots == {o \in Objs : heap[o] = Free}
\* calls in flight that will still allocate an object / claim a unit
PendingAllocs ==
  Cardinality({t \in Threads : cur[t].op = "deserialize"
                 /\ pc[t] \in {"deserialize_bytes", "gil", "import", "loads"}})
PendingUnits ==
  PendingAllocs
    + Cardinality({t \in Threads : cur[t].op = "extract_bound"
                     /\ pc[t] \in {"gil", "is_callable"}})
\* threads whose call in flight borrows a TdPyAny (a TdPyCallable) of object o
HandleBorrowers(o) ==
  {t \in Threads : pc[t] # "idle"
                     /\ cur[t].op # "callable_fmt"
                     /\ (cur[t].a = o \/ cur[t].b = o)}
CallableBorrowers(o) ==
  {t \in Threads : pc[t] # "idle" /\ cur[t].op = "callable_fmt" /\ cur[t].a = o}

Init ==
  /\ heap = [o \in Objs |-> Free]
  /\ rc = [o \in Objs |-> 0]
  /\ handles = [o \in Objs |-> 0]
  /\ raws = [o \in Objs |-> 0]
  /\ callables = [o \in Objs |-> 0]
  /\ gil = {}
  /\ pc = [t \in Threads |-> "idle"]
  /\ cur = [t \in Threads |-> NoCur]
  /\ wire = <<>>

\* the interpreter releases an object when its count reaches zero
Release(o, n) == IF n = 0 THEN Free ELSE heap[o]

\* ------------------------------------------------ ownership (no lock)
\* From<Bound<PyAny>> for TdPyAny: the interpreter hands a new object's
\* reference to the dataflow
FromBound(t, v) ==
  /\ pc[t] = "idle" /\ gil = {}
  /\ FreeSlots # {} /\ Cardinality(FreeSlots) > PendingAllocs
  /\ Units + PendingUnits < MaxRefs
  /\ LET o == CHOOSE x \in FreeSlots : \A y \in FreeSlots : x <= y
     IN  /\ heap' = [heap EXCEPT ![o] = v]
         /\ rc' = [rc EXCEPT ![o] = 1]
         /\ handles' = [handles EXCEPT ![o] = 1]
  /\ UNCHANGED <<raws, callables, gil, pc, cur, wire>>

\* fault: the reference is copied without a new unit
CloneCountShallow(n) == n

\* the count of a TdPyAny's object after #[derive(Clone)]
CloneCount(n) == n + 1

Clone(t, o) ==
  /\ pc[t] = "idle" /\ handles[o] > 0
  /\ Units + PendingUnits < MaxRefs
  /\ rc' = [rc EXCEPT ![o] = CloneCount(rc[o])]
  /\ handles' = [handles EXCEPT ![o] = @ + 1]
  /\ UNCHANGED <<heap, raws, callables, gil, pc, cur, wire>>

\* a TdPyAny goes out of scope: its Py<PyAny> gives its unit back
Drop(t, o) ==
  /\ pc[t] = "idle" /\ handles[o] > Cardinality(HandleBorrowers(o))
  /\ rc' = [rc EXCEPT ![o] = @ - 1]
  /\ handles' = [handles EXCEPT ![o] = @ - 1]
  /\ heap' = [heap EXCEPT ![o] = Release(o, rc'[o])]
  /\ UNCHANGED <<raws, callables, gil, pc, cur, wire>>

\* From<TdPyAny> for PyObject: the unit moves with the reference
IntoPyObject(t, o) ==
  /\ pc[t] = "idle" /\ handles[o] > Cardinality(HandleBorrowers(o))
  /\ handles' = [handles EXCEPT ![o] = @ - 1]
  /\ raws' = [raws EXCEPT ![o] = @ + 1]
  /\ UNCHANGED <<heap, rc, callables, gil, pc, cur, wire>>

\* From<PyObject> for TdPyAny
FromPyObject(t, o) ==
  /\ pc[t] = "idle" /\ raws[o] > 0
  /\ raws' = [raws EXCEPT ![o] = @ - 1]
  /\ handles' = [handles EXCEPT ![o] = @ + 1]
  /\ UNCHANGED <<heap, rc, callables, gil, pc, cur, wire>>

\* a TdPyCallable goes out of scope
DropCallable(t, o) ==
  /\ pc[t] = "idle" /\ callables[o] > Cardinality(CallableBorrowers(o))
  /\ rc' = [rc EXCEPT ![o] = @ - 1]
  /\ callables' = [callables EXCEPT ![o] = @ - 1]
  /\ heap' = [heap EXCEPT ![o] = Release(o, rc'[o])]
  /\ UNCHANGED <<handles, raws, gil, pc, cur, wire>>

\* ------------------------------------------------- Python::with_gil
\* the first step of each method's closure
Body(op) ==
  CASE op = "fmt" -> "repr"
    [] op = "eq" -> "rich_compare"
    [] op = "serialize" -> "import"
    [] op = "deserialize" -> "import"
    [] op = "extract_bound" -> "is_callable"
    [] op = "callable_fmt" -> "getattr"

\* fault: the lock is assumed held instead of waited for
GilFreeAssumed(t) == TRUE

\* the interpreter grants the lock to one thread at a time
GilFree(t) == gil = {}

\* Python::with_gil entered: the thread waits for the lock, then runs the
\* closure
WithGil(t) ==
  /\ pc[t] = "gil" /\ GilFree(t)
  /\ gil' = gil \cup {t}
  /\ pc' = [pc EXCEPT ![t] = Body(cur[t].op)]
  /\ UNCHANGED <<heap, rc, handles, raws, callables, cur, wire>>

\* s.map_err(|_| std::fmt::Error {})
FmtError(r) == [kind |-> "fmt::Error", val |-> <<>>]

\* try_unwrap!: the closure's Ok value, or a panic carrying the PyErr
try_unwrap(r) ==
  IF r.ok THEN [kind |-> "Ok", val |-> r.val]
  ELSE [kind |-> "panic", val |-> r.val]

\* fault: a failed comparison counts as unequal (unwrap_or(false))
EqOutcomeFalse(r) == [kind |-> "Ok", val |-> IF r.ok THEN r.val ELSE FALSE]

\* what eq's closure evaluates to
EqOutcome(r) == try_unwrap(r)

\* fault: a failed dump is replaced by an empty buffer
SerErrorEmpty(r) == [kind |-> "Ok", val |-> <<>>]

\* .map_err(S::Error::custom)
SerError(r) == [kind |-> "ser::Error::custom", val |-> r.val]

\* what serialize returns for the closure's result r
SerializeOutcome(r) ==
  IF r.ok THEN [kind |-> "Ok", val |-> r.val] ELSE SerError(r)

\* fault: the PyErr is returned as it is
DeErrorLeak(r) == [kind |-> "PyErr", val |-> r.val]

\* x.map_err(E::custom)
DeError(r) == [kind |-> "de::Error::custom", val |-> r.val]

\* what visit_bytes returns for the closure's result r
DeserializeOutcome(r) ==
  IF r.ok THEN [kind |-> "Ok", val |-> r.val] ELSE DeError(r)

\* where the method goes once its closure has ended with result r: the two
\* fmt methods write the string outside the closure, eq's panic ends the
\* thread, the others return
AfterClosure(op, r) ==
  CASE op \in {"fmt", "callable_fmt"} -> IF r.ok THEN "write_str" ELSE "done"
    [] op = "eq" -> IF EqOutcome(r).kind = "panic" THEN "panicked" ELSE "done"
    [] OTHER -> "done"

\* the value the method returns once its closure has ended
Returned(c) ==
  CASE c.op \in {"fmt", "callable_fmt"} ->
         IF c.r.ok THEN c.ret ELSE FmtError(c.r)
    [] c.op = "eq" -> EqOutcome(c.r)
    [] c.op = "serialize" -> SerializeOutcome(c.r)
    [] c.op = "deserialize" -> DeserializeOutcome(c.r)
    [] OTHER -> c.ret

\* the closure ends with the thread's call record c, by its value, by `?` or
\* by unwinding: the lock is released
Leave(t, c) ==
  /\ gil' = gil \ {t}
  /\ cur' = [cur EXCEPT ![t] = [c EXCEPT !.ret = Returned(c)]]
  /\ pc' = [pc EXCEPT ![t] = AfterClosure(c.op, c.r)]

\* the closure goes on to its next step
Goto(t, c, step) ==
  /\ gil' = gil
  /\ cur' = [cur EXCEPT ![t] = c]
  /\ pc' = [pc EXCEPT ![t] = step]

\* the caller takes the returned value
Continue(t) ==
  /\ pc[t] = "done"
  /\ pc' = [pc EXCEPT ![t] = "idle"]
  /\ cur' = [cur EXCEPT ![t] = NoCur]
  /\ UNCHANGED <<heap, rc, handles, raws, callables, gil, wire>>

\* ---------------------------------------------- <TdPyAny as Debug>::fmt
DebugFmt(t, o) ==
  /\ pc[t] = "idle" /\ handles[o] > 0
  /\ pc' = [pc EXCEPT ![t] = "gil"]
  /\ cur' = [cur EXCEPT ![t] = Call("fmt", o, 0)]
  /\ UNCHANGED <<heap, rc, handles, raws, callables, gil, wire>>

\* self_.repr()?.to_str()?
ReprStep(t) ==
  /\ pc[t] = "repr"
  /\ Leave(t, [cur[t] EXCEPT !.r = Repr(heap[cur[t].a])])
  /\ UNCHANGED <<heap, rc, handles, raws, callables, wire>>

\* f.write_str(&s): the formatter takes the string or fails
WriteStr(t) ==
  /\ pc[t] = "write_str"
  /\ \E fails \in BOOLEAN :
       cur' = [cur EXCEPT ![t].ret =
                 IF fails THEN [kind |-> "fmt::Error", val |-> <<>>]
                 ELSE [kind |-> "Ok", val |-> cur[t].r.val]]
  /\ pc' = [pc EXCEPT ![t] = "done"]
  /\ UNCHANGED <<heap, rc, handles, raws, callables, gil, wire>>

\* ------------------------------------------- <TdPyAny as PartialEq>::eq
Eq(t, a, b) ==
  /\ pc[t] = "idle" /\ handles[a] > 0 /\ handles[b] > 0
  /\ pc' = [pc EXCEPT ![t] = "gil"]
  /\ cur' = [cur EXCEPT ![t] = Call("eq", a, b)]
  /\ UNCHANGED <<heap, rc, handles, raws, callables, gil, wire>>

\* assert_tokens: the handle just deserialized is compared with the
\* original, deserialized == original
AssertDecoded(t, a) ==
  /\ pc[t] = "done" /\ cur[t].op = "deserialize" /\ cur[t].ret.kind = "Ok"
  /\ handles[a] > 0
  /\ pc' = [pc EXCEPT ![t] = "gil"]
  /\ cur' = [cur EXCEPT ![t] =
               [Call("eq", cur[t].a, a) EXCEPT !.src = cur[t].src]]
  /\ UNCHANGED <<heap, rc, handles, raws, callables, gil, wire>>

\* fault: pointer identity (Py::is) instead of rich comparison
CompareIdentity(a, b) == Ok(IF a = b THEN "True" ELSE "False")

\* fault: CompareOp::Ne instead of CompareOp::Eq
CompareNe(a, b) ==
  LET r == RichCompareEq(heap[a], heap[b], a = b)
  IN  IF r.ok /\ r.val \in {"True", "False"}
      THEN Ok(IF r.val = "True" THEN "False" ELSE "True")
      ELSE r

\* self_.rich_compare(other, CompareOp::Eq)
CompareResult(a, b) == RichCompareEq(heap[a], heap[b], a = b)

RichCompare(t) ==
  /\ pc[t] = "rich_compare"
  /\ LET c == [cur[t] EXCEPT !.r = CompareResult(cur[t].a, cur[t].b)]
     IN  IF c.r.ok THEN Goto(t, c, "is_truthy") ELSE Leave(t, c)
  /\ UNCHANGED <<heap, rc, handles, raws, callables, wire>>

\* .as_gil_ref().is_truthy()
IsTruthyStep(t) ==
  /\ pc[t] = "is_truthy"
  /\ Leave(t, [cur[t] EXCEPT !.r = IsTruthy(cur[t].r.val)])
  /\ UNCHANGED <<heap, rc, handles, raws, callables, wire>>

\* ---------------------------------------- <TdPyAny as Serialize>::serialize
Serialize(t, o) ==
  /\ pc[t] = "idle" /\ handles[o] > 0
  /\ pc' = [pc EXCEPT ![t] = "gil"]
  /\ cur' = [cur EXCEPT ![t] = Call("serialize", o, 0)]
  /\ UNCHANGED <<heap, rc, handles, raws, callables, gil, wire>>

\* what `import pickle` finds: the standard module, another module of that
\* name on the path, or nothing
PickleModules == {"pickle", "shadow", "missing"}

\* py.import_bound("pickle")
ImportResult(m) ==
  IF m = "missing" THEN Err(<<"ModuleNotFoundError", "pickle">>) ELSE Ok(m)

Import(t) ==
  /\ pc[t] = "import"
  /\ \E m \in PickleModules :
       LET c == [cur[t] EXCEPT !.mod = m, !.r = ImportResult(m)]
       IN  IF c.r.ok
           THEN Goto(t, c, IF c.op = "serialize" THEN "dumps" ELSE "loads")
           ELSE Leave(t, c)
  /\ UNCHANGED <<heap, rc, handles, raws, callables, wire>>

\* pickle.call_method1("dumps", (x,)): the object dumps returns; the other
\* module's dumps returns a str
CallDumps(m, v) ==
  IF m = "pickle"
  THEN LET d == Dumps(v)
       IN  IF d.ok THEN Ok([type |-> "bytes", val |-> d.val]) ELSE d
  ELSE Ok([type |-> "str", val |-> <<>>])

DumpsStep(t) ==
  /\ pc[t] = "dumps"
  /\ LET c == [cur[t] EXCEPT !.r = CallDumps(cur[t].mod, heap[cur[t].a])]
     IN  IF c.r.ok THEN Goto(t, c, "downcast") ELSE Leave(t, c)
  /\ UNCHANGED <<heap, rc, handles, raws, callables, wire>>

\* binding.downcast::<PyBytes>()
DowncastBytes(x) ==
  IF x.type = "bytes" THEN Ok(x.val)
  ELSE Err(<<"TypeError", x.type, "cannot be converted to PyBytes">>)

Downcast(t) ==
  /\ pc[t] = "downcast"
  /\ LET r == DowncastBytes(cur[t].r.val)
         c == [cur[t] EXCEPT !.r = r, !.buf = IF r.ok THEN r.val ELSE <<>>]
     IN  IF r.ok THEN Goto(t, c, "serialize_bytes") ELSE Leave(t, c)
  /\ UNCHANGED <<heap, rc, handles, raws, callables, wire>>

\* serializer.serialize_bytes(bytes.as_bytes()).map_err(S::Error::custom),
\* the closure's last expression: the engine's serializer takes the buffer,
\* or fails (its size limit)
SerializeBytes(t) ==
  /\ pc[t] = "serialize_bytes"
  /\ \/ /\ Len(wire) < MaxWire
        /\ wire' = Append(wire, [bytes |-> cur[t].buf,
                                 src |-> heap[cur[t].a]])
        /\ Leave(t, [cur[t] EXCEPT !.r = Ok(cur[t].buf), !.handed = TRUE])
     \/ /\ wire' = wire
        /\ Leave(t, [cur[t] EXCEPT !.r = Err(<<"serializer", "size limit">>),
                                   !.handed = TRUE])
  /\ UNCHANGED <<heap, rc, handles, raws, callables>>

\* ------------------------------------ <TdPyAny as Deserialize>::deserialize
\* buffers that reach the deserializer from other processes: the protocol 3
\* layout of "hello", a pickle with nothing on its stack
ForeignBuffers == {Dumps3(Hello), <<Op.PROTO, 4, Op.STOP>>}

Receive(b) ==
  /\ Len(wire) < MaxWire
  /\ wire' = Append(wire, [bytes |-> b, src |-> Free])
  /\ UNCHANGED <<heap, rc, handles, raws, callables, gil, pc, cur>>

\* deserializer.deserialize_bytes(PickleVisitor)
Deserialize(t) ==
  /\ pc[t] = "idle" /\ wire # <<>>
  /\ Cardinality(FreeSlots) > PendingAllocs
  /\ Units + PendingUnits < MaxRefs
  /\ pc' = [pc EXCEPT ![t] = "deserialize_bytes"]
  /\ cur' = [cur EXCEPT ![t] = Call("deserialize", 0, 0)]
  /\ UNCHANGED <<heap, rc, handles, raws, callables, gil, wire>>

\* the deserializer finds a byte array and calls PickleVisitor::visit_bytes
VisitBytes(t) ==
  /\ pc[t] = "deserialize_bytes" /\ wire # <<>>
  /\ cur' = [cur EXCEPT ![t].buf = Head(wire).bytes,
                        ![t].src = Head(wire).src]
  /\ wire' = Tail(wire)
  /\ pc' = [pc EXCEPT ![t] = "gil"]
  /\ UNCHANGED <<heap, rc, handles, raws, callables, gil>>

\* the deserializer finds something else: its error names
\* PickleVisitor::expecting
InvalidType(t) ==
  /\ pc[t] = "deserialize_bytes"
  /\ cur' = [cur EXCEPT ![t].ret =
               [kind |-> "de::Error",
                val |-> <<"invalid type", "a pickled byte array">>]]
  /\ pc' = [pc EXCEPT ![t] = "done"]
  /\ UNCHANGED <<heap, rc, handles, raws, callables, gil, wire>>

\* fault: "dumps" called where "loads" is meant: the result is the bytes
\* object it was given, pickled again
CallLoadsDumps(m, b) == Ok([type |-> "bytes", val |-> b])

\* pickle.call_method1("loads", (bytes,)); the other module has no loads
CallLoads(m, b) ==
  IF m = "pickle" THEN Loads(b) ELSE Err(<<"AttributeError", "loads">>)

\* ... .unbind().into(): the new object's reference becomes a TdPyAny
LoadsStep(t) ==
  /\ pc[t] = "loads"
  /\ LET r == CallLoads(cur[t].mod, cur[t].buf)
         o == CHOOSE x \in FreeSlots : \A y \in FreeSlots : x <= y
     IN  IF r.ok
         THEN /\ heap' = [heap EXCEPT ![o] = r.val]
              /\ rc' = [rc EXCEPT ![o] = 1]
              /\ handles' = [handles EXCEPT ![o] = 1]
              /\ Leave(t, [cur[t] EXCEPT !.r = Ok(o), !.a = o])
         ELSE /\ Leave(t, [cur[t] EXCEPT !.r = r])
              /\ UNCHANGED <<heap, rc, handles>>
  /\ UNCHANGED <<raws, callables, wire>>

\* ------------------------------ <TdPyCallable as FromPyObject>::extract_bound
\* PyO3 calls it with a Bound reference: the caller is inside a with_gil
\* scope for the whole call; here the Bound comes from TdPyAny::bind
ExtractBound(t, o) ==
  /\ pc[t] = "idle" /\ handles[o] > 0
  /\ Units + PendingUnits < MaxRefs
  /\ pc' = [pc EXCEPT ![t] = "gil"]
  /\ cur' = [cur EXCEPT ![t] = Call("extract_bound", o, 0)]
  /\ UNCHANGED <<heap, rc, handles, raws, callables, gil, wire>>

\* the else branch's message
NotCallableMsg(v) ==
  LET n == TypeName(v)
  IN  IF n.ok THEN <<"'", n.val, "' object is not callable">>
      ELSE <<"object is not callable">>

\* fault: the object is wrapped without the is_callable check
ExtractOutcomeUnchecked(v) == [kind |-> "Ok", val |-> <<>>]

\* the PyResult<Self> of extract_bound for an object of value v
ExtractOutcome(v) ==
  IF IsCallable(v) THEN [kind |-> "Ok", val |-> <<>>]
  ELSE [kind |-> "PyErr", val |-> <<"TypeError">> \o NotCallableMsg(v)]

\* the body of extract_bound: Ok clones the reference (clone_ref)
IsCallableStep(t) ==
  /\ pc[t] = "is_callable"
  /\ LET o == cur[t].a
         out == ExtractOutcome(heap[o])
     IN  /\ Leave(t, [cur[t] EXCEPT !.ret = out])
         /\ IF out.kind = "Ok"
            THEN /\ rc' = [rc EXCEPT ![o] = @ + 1]
                 /\ callables' = [callables EXCEPT ![o] = @ + 1]
            ELSE UNCHANGED <<rc, callables>>
  /\ UNCHANGED <<heap, handles, raws, wire>>

\* ------------------------------------------- <TdPyCallable as Debug>::fmt
CallableFmt(t, o) ==
  /\ pc[t] = "idle" /\ callables[o] > 0
  /\ pc' = [pc EXCEPT ![t] = "gil"]
  /\ cur' = [cur EXCEPT ![t] = Call("callable_fmt", o, 0)]
  /\ UNCHANGED <<heap, rc, handles, raws, callables, gil, wire>>

\* self.0.bind(py).getattr("__name__")?.extract()?
GetAttr(t) ==
  /\ pc[t] = "getattr"
  /\ Leave(t, [cur[t] EXCEPT !.r = GetAttrName(heap[cur[t].a])])
  /\ UNCHANGED <<heap, rc, handles, raws, callables, wire>>

\* ---------------------------------------------------------------- Next
Next ==
  \/ \E t \in Threads, v \in Values : FromBound(t, v)
  \/ \E t \in Threads, o \in Objs : Clone(t, o)
  \/ \E t \in Threads, o \in Objs : Drop(t, o)
  \/ \E t \in Threads, o \in Objs : IntoPyObject(t, o)
  \/ \E t \in Threads, o \in Objs : FromPyObject(t, o)
  \/ \E t \in Threads, o \in Objs : DropCallable(t, o)
  \/ \E t \in Threads, o \in Objs : DebugFmt(t, o)
  \/ \E t \in Threads, a \in Objs, b \in Objs : Eq(t, a, b)
  \/ \E t \in Threads, a \in Objs : AssertDecoded(t, a)
  \/ \E t \in Threads, o \in Objs : Serialize(t, o)
  \/ \E b \in ForeignBuffers : Receive(b)
  \/ \E t \in Threads : Deserialize(t)
  \/ \E t \in Threads, o \in Objs : ExtractBound(t, o)
  \/ \E t \in Threads, o \in Objs : CallableFmt(t, o)
  \/ \E t \in Threads : WithGil(t)
  \/ \E t \in Threads : ReprStep(t)
  \/ \E t \in Threads : WriteStr(t)
  \/ \E t \in Threads : RichCompare(t)
  \/ \E t \in Threads : IsTruthyStep(t)
  \/ \E t \in Threads : Import(t)
  \/ \E t \in Threads : DumpsStep(t)
  \/ \E t \in Threads : Downcast(t)
  \/ \E t \in Threads : SerializeBytes(t)
  \/ \E t \in Threads : VisitBytes(t)
  \/ \E t \in Threads : InvalidType(t)
  \/ \E t \in Threads : LoadsStep(t)
  \/ \E t \in Threads : IsCallableStep(t)
  \/ \E t \in Threads : GetAttr(t)
  \/ \E t \in Threads : Continue(t)

Spec == Init /\ [][Next]_vars

\* ================================================================ claims
Done(t, op) == pc[t] = "done" /\ cur[t].op = op
Ended(t, op) == pc[t] \in {"done", "panicked"} /\ cur[t].op = op

\* the steps that dereference a Python object
TouchPcs == {"repr", "rich_compare", "is_truthy", "import", "dumps",
             "downcast", "serialize_bytes", "loads", "is_callable", "getattr"}
\* where a thread is before, between and after the with_gil scopes
UnlockedPcs == {"idle", "gil", "write_str", "deserialize_bytes", "done",
                "panicked"}
\* the steps that call into the dataflow engine: the formatter, the
\* serializer, the deserializer
EnginePcs == {"write_str", "serialize_bytes", "deserialize_bytes"}

\* the truth value the interpreter gives a == b for objects a and b, or
\* "fails"
PyTruth(a, b) ==
  LET c == RichCompareEq(heap[a], heap[b], a = b)
  IN  IF ~c.ok THEN "fails"
      ELSE IF ~IsTruthy(c.val).ok THEN "fails"
      ELSE IF IsTruthy(c.val).val THEN "true" ELSE "false"

\* C1, as stated: a primitive value that Serialize pickled and Deserialize
\* (with the standard pickle module) unpickled is decoded without error, and
\* the decoded handle compares equal to a handle of that value.
RoundTrip ==
  \A t \in Threads :
    /\ (Done(t, "deserialize") /\ cur[t].src \in Primitives
          /\ cur[t].mod = "pickle") => cur[t].ret.kind = "Ok"
    /\ (Ended(t, "eq") /\ cur[t].src \in Primitives
          /\ heap[cur[t].b] = cur[t].src)
         => cur[t].ret = [kind |-> "Ok", val |-> TRUE]

\* C1, amended: the round trip decodes without error and keeps the contents;
\* the decoded handle compares equal to the original unless the value is a
\* NaN, which compares unequal.
RoundTripReflexive ==
  \A t \in Threads :
    /\ (Done(t, "deserialize") /\ cur[t].src \in Primitives
          /\ cur[t].mod = "pickle")
         => /\ cur[t].ret.kind = "Ok"
            /\ heap[cur[t].a] = cur[t].src
    /\ (Ended(t, "eq") /\ cur[t].src \in Primitives
          /\ heap[cur[t].b] = cur[t].src)
         => /\ pc[t] = "done"
            /\ heap[cur[t].a] = cur[t].src
            /\ cur[t].ret =
                 [kind |-> "Ok", val |-> (cur[t].src # NaN)]

RoundTripDone ==
  \E t \in Threads :
    /\ Done(t, "eq") /\ cur[t].src = Hello /\ heap[cur[t].b] = Hello
    /\ cur[t].a # cur[t].b
    /\ cur[t].ret = [kind |-> "Ok", val |-> TRUE]

\* C2: at most one thread holds the interpreter lock, every step that
\* dereferences a Python object is taken by a thread holding it, and no
\* thread holds it before its call, while it waits, after the closure or
\* after it returned or panicked.
LockDiscipline ==
  /\ Cardinality(gil) <= 1
  /\ \A t \in Threads :
       /\ pc[t] \in TouchPcs \cup UnlockedPcs
       /\ pc[t] \in TouchPcs => t \in gil
       /\ pc[t] \in UnlockedPcs => t \notin gil

LockPassedOn ==
  \E t \in Threads, u \in Threads :
    /\ pc[t] = "panicked" /\ t \notin gil
    /\ pc[u] = "dumps" /\ gil = {u}

\* C3, as stated: no thread calls into the dataflow engine while it holds
\* the interpreter lock.
EngineCallsUnlocked ==
  \A t \in Threads : pc[t] \in EnginePcs => t \notin gil

CloneEqual ==
  \A t \in Threads :
    (Done(t, "eq") /\ cur[t].a = cur[t].b /\ handles[cur[t].a] >= 2)
      => cur[t].ret.val = TRUE

\* C6, amended: a handle and its clone compare equal when the object's
\* comparison with itself is true (int, str, function); for a NaN they
\* compare unequal, and when the comparison fails the call panics.
CloneEqualIfReflexive ==
  \A t \in Threads :
    (Ended(t, "eq") /\ cur[t].a = cur[t].b /\ handles[cur[t].a] >= 2)
      => LET v == heap[cur[t].a]
         IN  CASE v \in {Int1, Hello, Lambda} ->
                    pc[t] = "done" /\ cur[t].ret = [kind |-> "Ok", val |-> TRUE]
               [] v = NaN ->
                    pc[t] = "done" /\ cur[t].ret = [kind |-> "Ok", val |-> FALSE]
               [] OTHER -> pc[t] = "panicked"

CloneCompared ==
  \E t \in Threads :
    /\ Done(t, "eq") /\ cur[t].a = cur[t].b /\ handles[cur[t].a] = 2
    /\ heap[cur[t].a] = Hello
    /\ cur[t].ret = [kind |-> "Ok", val |-> TRUE]

\* C7: extract_bound returns Ok and adds one reference exactly when the
\* object is callable; otherwise it adds none and returns a TypeError whose
\* message names the type when the name can be had and is the generic one
\* when it cannot.
CallableValidation ==
  [][\A t \in Threads :
       (pc[t] = "is_callable" /\ pc'[t] # "is_callable") =>
         LET o == cur[t].a
             v == heap[o]
             n == TypeName(v)
         IN  IF IsCallable(v)
             THEN /\ cur'[t].ret.kind = "Ok"
                  /\ rc'[o] = rc[o] + 1
                  /\ callables'[o] = callables[o] + 1
             ELSE /\ cur'[t].ret.kind = "PyErr"
                  /\ cur'[t].ret.val =
                       (IF n.ok
                        THEN <<"TypeError", "'", n.val,
                               "' object is not callable">>
                        ELSE <<"TypeError", "object is not callable">>)
                  /\ rc' = rc /\ callables' = callables]_vars

IntRejected ==
  \E t \in Threads :
    /\ Done(t, "extract_bound") /\ heap[cur[t].a] = Int1
    /\ cur[t].ret =
         [kind |-> "PyErr",
          val |-> <<"TypeError", "'", "int", "' object is not callable">>]

\* C8: a serialize whose import, dumps or downcast failed returns a custom
\* serialization error with the interpreter's message, has handed nothing
\* to the serializer, does not panic and does not hold the lock.
SerializeFailureReturned ==
  \A t \in Threads :
    cur[t].op = "serialize" =>
      /\ pc[t] # "panicked"
      /\ (pc[t] = "done"
            /\ (cur[t].mod # "pickle" \/ heap[cur[t].a] \notin Primitives))
           => /\ cur[t].ret.kind = "ser::Error::custom"
              /\ cur[t].ret.val = cur[t].r.val
              /\ cur[t].ret.val[1] \in
                   {"ModuleNotFoundError", "PicklingError", "TypeError"}
              /\ ~cur[t].handed
              /\ t \notin gil

UnpicklableReported ==
  \E t \in Threads :
    /\ Done(t, "serialize") /\ heap[cur[t].a] = Lambda
    /\ cur[t].ret = [kind |-> "ser::Error::custom",
                     val |-> <<"PicklingError", "function">>]
    /\ wire = <<>>

\* C9, as stated: no method returns the interpreter's error type.
NoPyErrReturned ==
  \A t \in Threads : pc[t] = "done" => cur[t].ret.kind # "PyErr"

\* C9, amended: the two fmt methods return fmt::Error, serialize and
\* deserialize a custom serde error, eq no error; extract_bound returns the
\* interpreter's error, and is the only one to.
ErrorsAtBoundary ==
  \A t \in Threads :
    pc[t] = "done" =>
      LET k == cur[t].ret.kind
          failed == ~cur[t].r.ok
      IN  CASE cur[t].op \in {"fmt", "callable_fmt"} ->
                 /\ k \in {"Ok", "fmt::Error"}
                 /\ failed => k = "fmt::Error"
            [] cur[t].op = "serialize" ->
                 /\ k \in {"Ok", "ser::Error::custom"}
                 /\ failed => k = "ser::Error::custom"
            [] cur[t].op = "deserialize" ->
                 /\ k \in {"Ok", "de::Error::custom", "de::Error"}
                 /\ failed => k = "de::Error::custom"
            [] cur[t].op = "eq" -> k = "Ok"
            [] cur[t].op = "extract_bound" ->
                 /\ k \in {"Ok", "PyErr"}
                 /\ ~IsCallable(heap[cur[t].a])
                      => k = "PyErr" /\ cur[t].ret.val[1] = "TypeError"

UnpicklingErrorConverted ==
  \E t \in Threads :
    /\ Done(t, "deserialize")
    /\ cur[t].ret.kind = "de::Error::custom"
    /\ cur[t].ret.val[1] = "UnpicklingError"

\* C10: an eq whose rich comparison or truth test failed ends in a panic and
\* returns no boolean; an eq without such a failure returns a boolean; no
\* other method panics, and their failures are returned errors.
EqFailureIsFatal ==
  \A t \in Threads :
    /\ pc[t] = "panicked" => cur[t].op = "eq"
    /\ Ended(t, "eq") =>
         IF PyTruth(cur[t].a, cur[t].b) = "fails"
         THEN pc[t] = "panicked" /\ cur[t].ret.kind = "panic"
         ELSE /\ pc[t] = "done" /\ cur[t].ret.kind = "Ok"
              /\ cur[t].ret.val \in BOOLEAN
    /\ (pc[t] = "done" /\ cur[t].op # "eq" /\ ~cur[t].r.ok)
         => cur[t].ret.kind \in
              {"fmt::Error", "ser::Error::custom", "de::Error::custom"}

AmbiguousTruthPanics ==
  \E t \in Threads :
    /\ pc[t] = "panicked" /\ cur[t].op = "eq"
    /\ cur[t].r = Err(<<"ValueError", "truth value is ambiguous">>)
    /\ cur[t].ret.kind = "panic"

====
